---- MODULE Spec2Model ----
(***************************************************************************)
(* Model of the console voice/text assistant CompleteVoiceChatbot          *)
(* (complete_voice_chatbot.py and complete_voice_chatbot_conda.py).        *)
(*                                                                         *)
(* Text is a sequence of string tokens.  Typed lines, command-line words   *)
(* and keywords carry one character per token, so that str.strip(),        *)
(* str.lower(), the substring test and " ".join() are computed; replies of *)
(* external services are opaque tokens.                                    *)
(***************************************************************************)
EXTENDS Naturals, Sequences, FiniteSets, TLC

(***************************************************************************)
(* Bounds of the model.                                                    *)
(***************************************************************************)
\* number of input() calls of one interactive session
MaxTurns == 2
\* longest 'organic' array of a search response
MaxOrganic == 3

(***************************************************************************)
(* Python values.                                                          *)
(***************************************************************************)
\* Python's None
NoneV == <<"<None>">>
\* a key that a dict does not hold
Missing == <<"<missing>">>
\* the empty str
Empty == <<>>
\* truth value of a str-or-None (if x:)
Truthy(x) == x # NoneV /\ x # Empty

Min(a, b) == IF a <= b THEN a ELSE b

(***************************************************************************)
(* str methods.                                                            *)
(***************************************************************************)
Upper == <<"A", "B", "C", "D", "E", "F", "G", "H", "I", "J", "K", "L", "M",
           "N", "O", "P", "Q", "R", "S", "T", "U", "V", "W", "X", "Y", "Z">>
Lower == <<"a", "b", "c", "d", "e", "f", "g", "h", "i", "j", "k", "l", "m",
           "n", "o", "p", "q", "r", "s", "t", "u", "v", "w", "x", "y", "z">>
Whitespace == {" ", "\t"}

LowerChar(c) ==
    IF \E i \in 1..Len(Upper) : Upper[i] = c
    THEN Lower[CHOOSE i \in 1..Len(Upper) : Upper[i] = c]
    ELSE c

\* str.lower()
StrLower(s) == [i \in 1..Len(s) |-> LowerChar(s[i])]

RECURSIVE LStrip(_)
LStrip(s) ==
    IF s # <<>> /\ Head(s) \in Whitespace THEN LStrip(Tail(s)) ELSE s

RECURSIVE RStrip(_)
RStrip(s) ==
    IF s # <<>> /\ s[Len(s)] \in Whitespace
    THEN RStrip(SubSeq(s, 1, Len(s) - 1))
    ELSE s

\* str.strip()
StrStrip(s) == RStrip(LStrip(s))

\* sub in s
Contains(s, sub) ==
    \E i \in 0..Len(s) :
        /\ i + Len(sub) <= Len(s)
        /\ SubSeq(s, i + 1, i + Len(sub)) = sub

\* sep.join(parts)
RECURSIVE StrJoin(_, _)
StrJoin(sep, parts) ==
    IF parts = <<>> THEN <<>>
    ELSE IF Len(parts) = 1 THEN parts[1]
    ELSE parts[1] \o sep \o StrJoin(sep, Tail(parts))

Space == <<" ">>

(***************************************************************************)
(* Results of calls: the value returned, or the exception that leaves the  *)
(* call.  "Exception" stands for any subclass of Exception,                *)
(* "KeyboardInterrupt" for the interrupt signal, which `except Exception`  *)
(* does not catch.                                                         *)
(***************************************************************************)
Return(v) == [exc |-> "none", ret |-> v]
Raise(e) == [exc |-> e, ret |-> NoneV]

(***************************************************************************)
(* search_web: the extraction of fragments from a search response.         *)
(* A response `data` is [hasKG, kgDesc, hasOrganic, organic]: kgDesc is    *)
(* Missing when knowledgeGraph has no 'description'; organic is a sequence *)
(* of snippets, Missing for a result without 'snippet'.                    *)
(***************************************************************************)
\* lines 162-165
KGPart(data) ==
    IF data.hasKG /\ data.kgDesc # Missing THEN <<data.kgDesc>> ELSE <<>>

\* the slice [:2] forgotten
Slice2_All(items) == items

\* data['organic'][:2]
Slice2(items) == SubSeq(items, 1, Min(2, Len(items)))

\* result.get('snippet', '')
GetSnippet(result) == IF result = Missing THEN Empty ELSE result

\* the for loop of lines 168-171, from position i
RECURSIVE OrganicLoop(_, _, _)
OrganicLoop(results, items, i) ==
    IF i > Len(items) THEN results
    ELSE LET snippet == GetSnippet(items[i])
         IN  OrganicLoop(IF snippet # Empty THEN Append(results, snippet)
                                            ELSE results,
                         items, i + 1)

\* lines 160-173: the fragments of a response, joined, or None
ExtractResults(data) ==
    LET results == IF data.hasOrganic
                   THEN OrganicLoop(KGPart(data), Slice2(data.organic), 1)
                   ELSE KGPart(data)
    IN  IF results # <<>> THEN StrJoin(Space, results) ELSE NoneV

\* req is the outcome of requests.post(...).json():
\* [kind |-> "ok", data |-> ...], [kind |-> "error"] or [kind |-> "interrupt"]
search_web(serper_key, req) ==
    IF ~Truthy(serper_key) THEN Return(NoneV)
    ELSE IF req.kind = "interrupt" THEN Raise("KeyboardInterrupt")
    ELSE IF req.kind = "error" THEN Return(NoneV)
    ELSE Return(ExtractResults(req.data))

(***************************************************************************)
(* needs_search.                                                           *)
(***************************************************************************)
search_indicators ==
    << <<"l", "a", "t", "e", "s", "t">>,
       <<"r", "e", "c", "e", "n", "t">>,
       <<"c", "u", "r", "r", "e", "n", "t">>,
       <<"t", "o", "d", "a", "y">>,
       <<"n", "e", "w", "s">>,
       <<"u", "p", "c", "o", "m", "i", "n", "g">>,
       <<"f", "u", "t", "u", "r", "e">>,
       <<"c", "r", "i", "c", "k", "e", "t">>,
       <<"m", "a", "t", "c", "h">>,
       <<"s", "c", "h", "e", "d", "u", "l", "e">>,
       <<"t", "a", "r", "i", "f", "f">>,
       <<"s", "e", "a", "r", "c", "h">>,
       <<"w", "h", "e", "n">>,
       <<"d", "a", "t", "e", "s">>,
       <<"w", "o", "r", "l", "d", " ", "c", "u", "p">>,
       <<"a", "s", "i", "a", " ", "c", "u", "p">>,
       <<"o", "l", "y", "m", "p", "i", "c", "s">>,
       <<"e", "l", "e", "c", "t", "i", "o", "n">>,
       <<"w", "e", "a", "t", "h", "e", "r">>,
       <<"s", "t", "o", "c", "k">> >>

needs_search(text) ==
    \E k \in 1..Len(search_indicators) :
        Contains(StrLower(text), search_indicators[k])

(***************************************************************************)
(* get_response.                                                           *)
(***************************************************************************)
PromptQuestion == <<"Question: ">>
PromptInfo == <<"\n\nCurrent information: ">>
PromptInstruction ==
    <<"\n\nProvide a conversational response (50-80 words) suitable for voice interaction.">>

\* lines 196-205
BuildPrompt(question, web_info) ==
    IF Truthy(web_info)
    THEN PromptQuestion \o question \o PromptInfo \o web_info \o PromptInstruction
    ELSE PromptQuestion \o question \o PromptInstruction

ApologyPrefix == <<"Sorry, I had an error: ">>

\* line 216
Apology(err) == ApologyPrefix \o err

\* get_response without its try/except: a failure of the model call leaves it
get_response_NoTry(question, serper_key, req, llm) ==
    LET searched == needs_search(question)
        sw == IF searched THEN search_web(serper_key, req) ELSE Return(NoneV)
        prompt == BuildPrompt(question, sw.ret)
    IN  IF sw.exc # "none"
        THEN [exc |-> sw.exc, ret |-> NoneV, prompt |-> NoneV, searched |-> searched]
        ELSE IF llm.kind = "interrupt"
        THEN [exc |-> "KeyboardInterrupt", ret |-> NoneV, prompt |-> prompt,
              searched |-> searched]
        ELSE IF llm.kind = "error"
        THEN [exc |-> "Exception", ret |-> NoneV, prompt |-> prompt,
              searched |-> searched]
        ELSE [exc |-> "none", ret |-> llm.content, prompt |-> prompt,
              searched |-> searched]

\* llm is the outcome of self.chatbot.invoke(messages) and response.content:
\* [kind |-> "ok", content |-> ...], [kind |-> "error", err |-> ...] or
\* [kind |-> "interrupt"].  The record returned also carries the prompt sent
\* (NoneV when the model was not invoked) and whether search_web was called.
get_response(question, serper_key, req, llm) ==
    LET searched == needs_search(question)
        sw == IF searched THEN search_web(serper_key, req) ELSE Return(NoneV)
        prompt == BuildPrompt(question, sw.ret)
    IN  IF sw.exc # "none"
        THEN [exc |-> sw.exc, ret |-> NoneV, prompt |-> NoneV, searched |-> searched]
        ELSE IF llm.kind = "interrupt"
        THEN [exc |-> "KeyboardInterrupt", ret |-> NoneV, prompt |-> prompt,
              searched |-> searched]
        ELSE IF llm.kind = "error"
        THEN [exc |-> "none", ret |-> Apology(llm.err), prompt |-> prompt,
              searched |-> searched]
        ELSE [exc |-> "none", ret |-> llm.content, prompt |-> prompt,
              searched |-> searched]

(***************************************************************************)
(* speak and the inline renderer.  engine is the outcome of                *)
(* tts_engine.say/runAndWait: "ok" or "error".                             *)
(***************************************************************************)
\* speak without the try/except around the engine
speak_Uncaught(text, tts_on, engine) ==
    [exc |-> IF tts_on /\ engine = "error" THEN "Exception" ELSE "none",
     printed |-> text,
     said |-> IF tts_on /\ engine = "ok" THEN text ELSE NoneV]

\* lines 92-101: prints, then speaks when tts is on; a speech error is caught
speak(text, tts_on, engine) ==
    [exc |-> "none", printed |-> text,
     said |-> IF tts_on /\ engine = "ok" THEN text ELSE NoneV]

\* lines 276-284 and 301-310: console is the outcome of print(response)
RenderResponse(text, tts_on, console, engine) ==
    IF console = "error"
    THEN [exc |-> "Exception", printed |-> NoneV, said |-> NoneV]
    ELSE [exc |-> "none", printed |-> text,
          said |-> IF tts_on /\ engine = "ok" THEN text ELSE NoneV]

(***************************************************************************)
(* listen.  A capture outcome is [kind |-> "text", text |-> ...] (the      *)
(* transcript of recognize_google), or kind "WaitTimeoutError",            *)
(* "UnknownValueError", "RequestError", "OSError" (subclasses of           *)
(* Exception), or "KeyboardInterrupt".                                     *)
(***************************************************************************)
CaptureFailures == {"WaitTimeoutError", "UnknownValueError", "RequestError", "OSError"}

\* listen letting a capture failure through
listen_Propagates(voice_on, capture) ==
    IF ~voice_on THEN Return(NoneV)
    ELSE IF capture.kind = "text" THEN Return(StrStrip(capture.text))
    ELSE IF capture.kind = "KeyboardInterrupt" THEN Raise("KeyboardInterrupt")
    ELSE Raise("Exception")

\* complete_voice_chatbot.py: one capture on self.microphone
listen(voice_on, capture) ==
    IF ~voice_on THEN Return(NoneV)
    ELSE IF capture.kind = "text" THEN Return(StrStrip(capture.text))
    ELSE IF capture.kind = "KeyboardInterrupt" THEN Raise("KeyboardInterrupt")
    ELSE Return(NoneV)

\* number of candidate microphone sources of the conda variant
NumMicSources == 4

\* complete_voice_chatbot_conda.py: the for loop over microphone_sources;
\* captures[i] is the outcome on source i
RECURSIVE MicLoop(_, _)
MicLoop(captures, i) ==
    IF i > NumMicSources THEN Return(NoneV)
    ELSE IF captures[i].kind = "text" THEN Return(StrStrip(captures[i].text))
    ELSE IF captures[i].kind = "KeyboardInterrupt" THEN Raise("KeyboardInterrupt")
    ELSE MicLoop(captures, i + 1)

listen_conda(voice_on, captures) ==
    IF ~voice_on THEN Return(NoneV) ELSE MicLoop(captures, 1)

\* lines 130-132
get_text_input(line) == StrStrip(line)

(***************************************************************************)
(* __init__ and main.                                                      *)
(***************************************************************************)
\* lines 42-55 and 58-67: a capability is on when its library was imported
\* and its probe raised nothing
ProbeCapability(available, probe) == available /\ probe = "ok"

\* __init__ with the probes outside their try/except
Construct_ProbeFatal(voice_available, tts_available, api_key, micProbe, ttsProbe) ==
    [exc |-> IF \/ ~Truthy(api_key)
                \/ (voice_available /\ micProbe = "error")
                \/ (tts_available /\ ttsProbe = "error")
             THEN "Exception" ELSE "none",
     voice_input |-> ProbeCapability(voice_available, micProbe),
     tts |-> ProbeCapability(tts_available, ttsProbe)]

\* lines 38-90: the flags, and the ValueError of line 82 when the key is unset
Construct(voice_available, tts_available, api_key, micProbe, ttsProbe) ==
    [exc |-> IF ~Truthy(api_key) THEN "Exception" ELSE "none",
     voice_input |-> ProbeCapability(voice_available, micProbe),
     tts |-> ProbeCapability(tts_available, ttsProbe)]

\* the words joined with no separator
JoinArgs_NoSeparator(args) == StrJoin(Empty, args)

\* line 323
JoinArgs(args) == StrJoin(Space, args)

(***************************************************************************)
(* run_interactive: the tests of one turn.                                 *)
(***************************************************************************)
ExitKeywords ==
    { <<"q", "u", "i", "t">>, <<"e", "x", "i", "t">>, <<"s", "t", "o", "p">>,
      <<"g", "o", "o", "d", "b", "y", "e">>, <<"b", "y", "e">> }
VoiceKeyword == <<"v", "o", "i", "c", "e">>

\* the comparison without .lower()
IsExitCommand_CaseSensitive(text) == text \in ExitKeywords

\* line 250
IsExitCommand(text) == StrLower(text) \in ExitKeywords
\* line 256
IsVoiceCommand(text) == StrLower(text) = VoiceKeyword

Hello == <<"Hello! I'm your AI assistant. What would you like to know?">>
GoodbyeDay == <<"Goodbye! Have a great day!">>
Goodbye == <<"Goodbye!">>

\* the tests without the `continue` of the disabled-voice branch
Dispatch_NoContinue(text, voice_on) ==
    IF ~Truthy(text) THEN "AwaitingInput"
    ELSE IF IsExitCommand(text) THEN "Ended"
    ELSE IF IsVoiceCommand(text) /\ voice_on THEN "Listening"
    ELSE "Processing"

\* lines 245-273: where a typed line (already stripped) takes the turn
Dispatch(text, voice_on) ==
    IF ~Truthy(text) THEN "AwaitingInput"
    ELSE IF IsExitCommand(text) THEN "Ended"
    ELSE IF IsVoiceCommand(text)
         THEN IF voice_on THEN "Listening" ELSE "AwaitingInput"
    ELSE "Processing"

\* the failed capture not ending the turn
AfterListen_NoContinue(voice_text) == "Processing"

\* the captured text put through the command tests of lines 250 and 256
AfterListen_Reexamine(voice_text) ==
    IF ~Truthy(voice_text) THEN "AwaitingInput"
    ELSE IF IsExitCommand(voice_text) THEN "Ended"
    ELSE IF IsVoiceCommand(voice_text) THEN "Listening"
    ELSE "Processing"

\* lines 260-265: after listen() returned voice_text
AfterListen(voice_text) ==
    IF Truthy(voice_text) THEN "Processing" ELSE "AwaitingInput"

\* the handler leaving the loop
AfterException_Break == "Ended"

\* lines 290-292: the loop goes on
AfterException == "AwaitingInput"

\* lines 286-289: break
AfterInterrupt == "Ended"

(***************************************************************************)
(* Inputs of the environment.                                              *)
(***************************************************************************)
Variants == {"base", "conda"}

TypedLines ==
    { <<"q", "u", "i", "t">>, <<"Q", "U", "I", "T">>, <<"B", "y", "e">>,
      <<" ", " ", "g", "o", "o", "d", "b", "y", "e", " ", " ">>,
      <<"E", "x", "i", "t">>, <<"s", "t", "o", "p">>,
      <<>>, <<" ", " ", " ">>,
      <<"v", "o", "i", "c", "e">>, <<" ", "V", "o", "i", "c", "e", " ">>,
      <<"h", "i">>, <<" ", "N", "e", "w", "s", " ">>,
      <<"q", "u", "i", "t", " ", "n", "o", "w">> }

ArgLists ==
    { <<>>,
      << <<"t", "e", "l", "l">>, <<"m", "e">>, <<"a">>, <<"j", "o", "k", "e">> >>,
      << <<"n", "e", "w", "s">> >> }

ApiKeys == {NoneV, Empty, <<"key">>}

CaptureTexts ==
    { <<"h", "i">>, <<" ", "b", "y", "e">>, <<"v", "o", "i", "c", "e">>, <<" ">> }
Captures ==
    [kind : {"text"}, text : CaptureTexts]
    \cup [kind : CaptureFailures \cup {"KeyboardInterrupt"}, text : {Empty}]
\* the outcomes on one microphone source of the conda variant
SourceCaptures ==
    {c \in Captures : c.kind \in {"WaitTimeoutError", "OSError", "KeyboardInterrupt"}
                      \/ c.text \in { <<" ", "b", "y", "e">>,
                                      <<"v", "o", "i", "c", "e">>, <<" ">> }}

Descriptions == {Missing, Empty, <<"K">>}
Snippets == {Missing, Empty, <<"A">>, <<"B">>, <<"C">>}
OrganicLists(n) == UNION {[1..k -> Snippets] : k \in 0..n}
SearchData(n) ==
    [hasKG : BOOLEAN, kgDesc : Descriptions, hasOrganic : BOOLEAN,
     organic : OrganicLists(n)]

NoData == [hasKG |-> FALSE, kgDesc |-> Missing, hasOrganic |-> FALSE, organic |-> <<>>]
\* the responses a turn of the session may receive
TurnData ==
    { NoData,
      [hasKG |-> FALSE, kgDesc |-> Missing, hasOrganic |-> TRUE,
       organic |-> << <<"A">>, <<"B">>, <<"C">> >>],
      [hasKG |-> TRUE, kgDesc |-> <<"K">>, hasOrganic |-> TRUE,
       organic |-> << Empty, <<"B">> >>] }
Requests ==
    [kind : {"ok"}, data : TurnData]
    \cup [kind : {"error", "interrupt"}, data : {NoData}]

Replies == { <<"It's sunny today.">>, <<"Here is a joke.">> }
ErrorTexts == { <<"quota exceeded">>, <<"timed out">> }
LLMOutcomes ==
    [kind : {"ok"}, content : Replies, err : {Empty}]
    \cup [kind : {"error"}, content : {Empty}, err : ErrorTexts]
    \cup [kind : {"interrupt"}, content : {Empty}, err : {Empty}]
NoLLM == [kind |-> "none", content |-> Empty, err |-> Empty]

(***************************************************************************)
(* State.                                                                  *)
(***************************************************************************)
VARIABLES
    variant,                \* which of the two files runs
    argv,                   \* sys.argv[1:]
    GOOGLE_API_KEY,         \* os.getenv("GOOGLE_API_KEY")
    SERPER_API_KEY,         \* os.getenv("SERPER_API_KEY")
    VOICE_INPUT_AVAILABLE,  \* module flag set by the imports
    TTS_AVAILABLE,          \* module flag set by the imports
    voice_input,            \* self.voice_input
    tts,                    \* self.tts
    pc,                     \* position of the process
    mode,                   \* the run method entered: "none", "interactive", "single"
    command,                \* main's local
    user_input,             \* run_interactive's local
    response,               \* local of run_interactive / run_single_command
    turn,                   \* input() calls so far
    event,                  \* how the last input() ended: "none", "line", "eof", "interrupt"
    typed,                  \* the line input() returned in this turn
    onlyEOF,                \* every input() call so far raised EOFError
    heard,                  \* what listen() returned in this turn
    captureKind,            \* outcome of the last capture attempt
    genCalls,               \* get_response calls of this turn
    genArg,                 \* question of the last get_response call
    prompt,                 \* prompt of the last model invocation
    reqKind,                \* outcome of the search request of the last call
    llmOut,                 \* outcome of the model invocation of the last call
    renderCalls,            \* renderer calls of this turn
    rendered,               \* text handed to the renderer last
    spoken,                 \* text last given to speak()
    interrupted,            \* a KeyboardInterrupt reached the loop's handler
    caught,                 \* the loop's `except Exception` ran in this turn
    escaped,                \* exception that left run_interactive or get_input
    data,                   \* search response under test
    web_result,             \* search_web's return value
    prefer_voice,           \* get_input's parameter
    got_input               \* get_input's return value

env == <<variant, argv, GOOGLE_API_KEY, SERPER_API_KEY, VOICE_INPUT_AVAILABLE,
         TTS_AVAILABLE>>
flags == <<voice_input, tts>>
turnIn == <<turn, event, typed, onlyEOF>>
genVars == <<genCalls, genArg, prompt, reqKind, llmOut>>
renderVars == <<renderCalls, rendered>>
harness == <<data, web_result, prefer_voice, got_input>>

vars == <<variant, argv, GOOGLE_API_KEY, SERPER_API_KEY, VOICE_INPUT_AVAILABLE,
          TTS_AVAILABLE, voice_input, tts, pc, mode, command, user_input,
          response, turn, event, typed, onlyEOF, heard, captureKind, genCalls,
          genArg,
          prompt, reqKind, llmOut, renderCalls, rendered, spoken, interrupted,
          caught, escaped, data, web_result, prefer_voice, got_input>>

\* the locals and the bookkeeping before anything ran
Blank ==
    /\ mode = "none"
    /\ command = NoneV
    /\ user_input = NoneV
    /\ response = NoneV
    /\ turn = 0
    /\ event = "none"
    /\ typed = NoneV
    /\ onlyEOF = TRUE
    /\ heard = NoneV
    /\ captureKind = "none"
    /\ genCalls = 0
    /\ genArg = NoneV
    /\ prompt = NoneV
    /\ reqKind = "none"
    /\ llmOut = NoLLM
    /\ renderCalls = 0
    /\ rendered = NoneV
    /\ spoken = NoneV
    /\ interrupted = FALSE
    /\ caught = FALSE
    /\ escaped = "none"

\* the process is started: main has not run yet
Init ==
    /\ variant \in Variants
    /\ argv \in ArgLists
    /\ GOOGLE_API_KEY \in ApiKeys
    /\ SERPER_API_KEY \in {NoneV, <<"key">>}
    /\ VOICE_INPUT_AVAILABLE \in BOOLEAN
    /\ TTS_AVAILABLE \in BOOLEAN
    /\ voice_input = FALSE
    /\ tts = FALSE
    /\ pc = "main"
    /\ Blank
    /\ data = NoData
    /\ web_result = NoneV
    /\ prefer_voice = FALSE
    /\ got_input = NoneV

(***************************************************************************)
(* main.                                                                   *)
(***************************************************************************)
\* line 319: bot = CompleteVoiceChatbot()
MainConstruct ==
    /\ pc = "main"
    /\ \E micProbe \in {"ok", "error"}, ttsProbe \in {"ok", "error"} :
         LET r == Construct(VOICE_INPUT_AVAILABLE, TTS_AVAILABLE, GOOGLE_API_KEY,
                            micProbe, ttsProbe)
         IN  /\ voice_input' = r.voice_input
             /\ tts' = r.tts
             /\ pc' = IF r.exc = "none" THEN "constructed" ELSE "main_except"
    /\ UNCHANGED <<env, mode, command, user_input, response, turnIn, heard,
                   captureKind, genVars, renderVars, spoken, interrupted,
                   caught, escaped, harness>>

\* lines 321-324: single command mode
MainSingle ==
    /\ pc = "constructed"
    /\ Len(argv) > 0
    /\ command' = JoinArgs(argv)
    /\ mode' = "single"
    /\ pc' = "SingleProcessing"
    /\ UNCHANGED <<env, flags, user_input, response, turnIn, heard, captureKind,
                   genVars, renderVars, spoken, interrupted, caught, escaped,
                   harness>>

\* lines 325-327 and 220-237: interactive mode, up to the greeting
MainInteractive ==
    /\ pc = "constructed"
    /\ Len(argv) = 0
    /\ mode' = "interactive"
    /\ \E engine \in {"ok", "error"} :
         LET r == speak(Hello, tts, engine)
         IN  /\ spoken' = r.printed
             /\ escaped' = r.exc
             /\ pc' = IF r.exc = "none" THEN "AwaitingInput" ELSE "main_except"
    /\ UNCHANGED <<env, flags, command, user_input, response, turnIn, heard,
                   captureKind, genVars, renderVars, interrupted, caught, harness>>

\* lines 329-334: main's handler prints the hints; the process ends
MainExcept ==
    /\ pc = "main_except"
    /\ pc' = "Exit"
    /\ UNCHANGED <<env, flags, mode, command, user_input, response, turnIn,
                   heard, captureKind, genVars, renderVars, spoken, interrupted,
                   caught, escaped, harness>>

\* run_interactive returned after break; main returns
MainReturn ==
    /\ pc = "Ended"
    /\ pc' = "Exit"
    /\ UNCHANGED <<env, flags, mode, command, user_input, response, turnIn,
                   heard, captureKind, genVars, renderVars, spoken, interrupted,
                   caught, escaped, harness>>

(***************************************************************************)
(* run_interactive: the loop of lines 239-292.                             *)
(***************************************************************************)
\* the bookkeeping of a turn starts afresh with each input() call
NewTurn ==
    /\ heard' = NoneV
    /\ captureKind' = "none"
    /\ genCalls' = 0
    /\ genArg' = NoneV
    /\ prompt' = NoneV
    /\ reqKind' = "none"
    /\ llmOut' = NoLLM
    /\ renderCalls' = 0
    /\ rendered' = NoneV

\* lines 243-269: input() returns a line; the tests on it
ReadLine ==
    /\ pc = "AwaitingInput"
    /\ turn < MaxTurns
    /\ \E line \in TypedLines, engine \in {"ok", "error"} :
         LET text == StrStrip(line)
             next == Dispatch(text, voice_input)
             r == speak(GoodbyeDay, tts, engine)
         IN  /\ typed' = line
             /\ user_input' = text
             /\ IF next = "Ended"
                THEN /\ spoken' = r.printed
                     /\ caught' = (r.exc = "Exception")
                     /\ pc' = IF r.exc = "none" THEN next ELSE AfterException
                ELSE /\ spoken' = spoken
                     /\ caught' = FALSE
                     /\ pc' = next
    /\ turn' = turn + 1
    /\ event' = "line"
    /\ onlyEOF' = FALSE
    /\ NewTurn
    /\ UNCHANGED <<env, flags, mode, command, response, interrupted, escaped,
                   harness>>

\* line 243 raises KeyboardInterrupt; lines 286-289
ReadInterrupt ==
    /\ pc = "AwaitingInput"
    /\ event' = "interrupt"
    /\ typed' = NoneV
    /\ onlyEOF' = FALSE
    /\ NewTurn
    /\ caught' = FALSE
    /\ interrupted' = TRUE
    /\ \E engine \in {"ok", "error"} :
         LET r == speak(Goodbye, tts, engine)
         IN  /\ spoken' = r.printed
             /\ escaped' = r.exc
             /\ pc' = IF r.exc = "none" THEN AfterInterrupt ELSE "main_except"
    /\ UNCHANGED <<env, flags, mode, command, user_input, response, turn,
                   harness>>

\* EOFError not caught by the loop: it leaves run_interactive for main's handler
ReadEOF_Escapes ==
    /\ pc = "AwaitingInput"
    /\ turn < MaxTurns
    /\ turn' = turn + 1
    /\ event' = "eof"
    /\ typed' = NoneV
    /\ NewTurn
    /\ escaped' = "Exception"
    /\ pc' = "main_except"
    /\ UNCHANGED <<env, flags, mode, command, user_input, response, onlyEOF,
                   spoken, interrupted, caught, harness>>

\* line 243 raises EOFError (the input stream is closed); lines 290-292
ReadEOF ==
    /\ pc = "AwaitingInput"
    /\ turn < MaxTurns
    /\ turn' = turn + 1
    /\ event' = "eof"
    /\ typed' = NoneV
    /\ NewTurn
    /\ caught' = TRUE
    /\ pc' = AfterException
    /\ UNCHANGED <<env, flags, mode, command, user_input, response, onlyEOF,
                   spoken, interrupted, escaped, harness>>

\* the kind of the capture that decided a call of listen_conda
DecidingKind(r, captures) ==
    IF r.exc # "none" THEN "KeyboardInterrupt"
    ELSE IF r.ret # NoneV THEN "text"
    ELSE captures[NumMicSources].kind

\* lines 259-265 after the call r of listen(); an interrupt goes to 286-289
AfterListenCall(r, kind, engine) ==
    /\ heard' = r.ret
    /\ captureKind' = kind
    /\ IF r.exc = "KeyboardInterrupt"
       THEN LET s == speak(Goodbye, tts, engine)
            IN  /\ interrupted' = TRUE
                /\ spoken' = s.printed
                /\ escaped' = s.exc
                /\ user_input' = user_input
                /\ pc' = IF s.exc = "none" THEN AfterInterrupt ELSE "main_except"
       ELSE /\ user_input' = IF Truthy(r.ret) THEN r.ret ELSE user_input
            /\ pc' = AfterListen(r.ret)
            /\ UNCHANGED <<interrupted, spoken, escaped>>
    /\ UNCHANGED <<env, flags, mode, command, response, turnIn, genVars,
                   renderVars, caught, harness>>

\* complete_voice_chatbot.py, line 259
ListenBase ==
    /\ pc = "Listening"
    /\ variant = "base"
    /\ \E capture \in Captures, engine \in {"ok", "error"} :
         AfterListenCall(listen(voice_input, capture), capture.kind, engine)

\* complete_voice_chatbot_conda.py, line 266
ListenConda ==
    /\ pc = "Listening"
    /\ variant = "conda"
    /\ \E captures \in [1..NumMicSources -> SourceCaptures], engine \in {"ok", "error"} :
         LET r == listen_conda(voice_input, captures)
         IN  AfterListenCall(r, DecidingKind(r, captures), engine)

\* lines 272-273: get_response(user_input)
Process ==
    /\ pc = "Processing"
    /\ \E req \in Requests, llm \in LLMOutcomes, engine \in {"ok", "error"} :
         LET r == get_response(user_input, SERPER_API_KEY, req, llm)
             asked == r.searched /\ Truthy(SERPER_API_KEY)
         IN  /\ genCalls' = genCalls + 1
             /\ genArg' = user_input
             /\ prompt' = r.prompt
             /\ reqKind' = IF asked THEN req.kind ELSE "none"
             /\ llmOut' = IF r.prompt = NoneV THEN NoLLM ELSE llm
             /\ IF r.exc = "KeyboardInterrupt"
                THEN LET s == speak(Goodbye, tts, engine)
                     IN  /\ interrupted' = TRUE
                         /\ spoken' = s.printed
                         /\ escaped' = s.exc
                         /\ pc' = IF s.exc = "none" THEN AfterInterrupt
                                                    ELSE "main_except"
                         /\ UNCHANGED <<response, caught>>
                ELSE IF r.exc = "Exception"
                THEN /\ caught' = TRUE
                     /\ pc' = AfterException
                     /\ UNCHANGED <<response, interrupted, spoken, escaped>>
                ELSE /\ response' = r.ret
                     /\ pc' = "Rendering"
                     /\ UNCHANGED <<caught, interrupted, spoken, escaped>>
    /\ UNCHANGED <<env, flags, mode, command, user_input, turnIn, heard,
                   captureKind, renderVars, harness>>

\* lines 276-284: print and speak the response, then loop
Render ==
    /\ pc = "Rendering"
    /\ \E console \in {"ok", "error"}, engine \in {"ok", "error"} :
         LET r == RenderResponse(response, tts, console, engine)
         IN  /\ caught' = (r.exc = "Exception")
             /\ pc' = IF r.exc = "none" THEN "AwaitingInput" ELSE AfterException
    /\ renderCalls' = renderCalls + 1
    /\ rendered' = response
    /\ UNCHANGED <<env, flags, mode, command, user_input, response, turnIn,
                   heard, captureKind, genVars, spoken, interrupted, escaped,
                   harness>>

(***************************************************************************)
(* run_single_command.                                                     *)
(***************************************************************************)
\* line 298
SingleProcess ==
    /\ pc = "SingleProcessing"
    /\ \E req \in {q \in Requests : q.kind # "interrupt"},
          llm \in {l \in LLMOutcomes : l.kind # "interrupt"} :
         LET r == get_response(command, SERPER_API_KEY, req, llm)
             asked == r.searched /\ Truthy(SERPER_API_KEY)
         IN  /\ genCalls' = genCalls + 1
             /\ genArg' = command
             /\ prompt' = r.prompt
             /\ reqKind' = IF asked THEN req.kind ELSE "none"
             /\ llmOut' = llm
             /\ response' = r.ret
             /\ pc' = IF r.exc = "none" THEN "SingleRendering" ELSE "main_except"
    /\ UNCHANGED <<env, flags, mode, command, user_input, turnIn, heard,
                   captureKind, renderVars, spoken, interrupted, caught,
                   escaped, harness>>

\* lines 301-312
SingleRender ==
    /\ pc = "SingleRendering"
    /\ \E console \in {"ok", "error"}, engine \in {"ok", "error"} :
         LET r == RenderResponse(response, tts, console, engine)
         IN  pc' = IF r.exc = "none" THEN "Exit" ELSE "main_except"
    /\ renderCalls' = renderCalls + 1
    /\ rendered' = response
    /\ UNCHANGED <<env, flags, mode, command, user_input, response, turnIn,
                   heard, captureKind, genVars, spoken, interrupted, caught,
                   escaped, harness>>

Next ==
    \/ MainConstruct
    \/ MainSingle
    \/ MainInteractive
    \/ MainExcept
    \/ MainReturn
    \/ ReadLine
    \/ ReadInterrupt
    \/ ReadEOF
    \/ ListenBase
    \/ ListenConda
    \/ Process
    \/ Render
    \/ SingleProcess
    \/ SingleRender

Spec == Init /\ [][Next]_vars

(***************************************************************************)
(* search_web called on its own, on every response of the bounded domain.  *)
(***************************************************************************)
InitSearch ==
    /\ variant = "base"
    /\ argv = <<>>
    /\ GOOGLE_API_KEY = <<"key">>
    /\ SERPER_API_KEY \in {NoneV, Empty, <<"key">>}
    /\ VOICE_INPUT_AVAILABLE = FALSE
    /\ TTS_AVAILABLE = FALSE
    /\ voice_input = FALSE
    /\ tts = FALSE
    /\ pc = "search_web"
    /\ Blank
    /\ data \in SearchData(MaxOrganic)
    /\ web_result = NoneV
    /\ prefer_voice = FALSE
    /\ got_input = NoneV

\* lines 146-177: the request answers with `data`
SearchWebOk ==
    /\ pc = "search_web"
    /\ LET r == search_web(SERPER_API_KEY, [kind |-> "ok", data |-> data])
       IN  web_result' = r.ret
    /\ reqKind' = IF Truthy(SERPER_API_KEY) THEN "ok" ELSE "none"
    /\ pc' = "search_web_done"
    /\ UNCHANGED <<env, flags, mode, command, user_input, response, turnIn,
                   heard, captureKind, genCalls, genArg, prompt, llmOut,
                   renderVars, spoken, interrupted, caught, escaped, data,
                   prefer_voice, got_input>>

\* lines 146-177: the request or the parsing of its answer fails
SearchWebError ==
    /\ pc = "search_web"
    /\ LET r == search_web(SERPER_API_KEY, [kind |-> "error", data |-> NoData])
       IN  web_result' = r.ret
    /\ reqKind' = IF Truthy(SERPER_API_KEY) THEN "error" ELSE "none"
    /\ pc' = "search_web_done"
    /\ UNCHANGED <<env, flags, mode, command, user_input, response, turnIn,
                   heard, captureKind, genCalls, genArg, prompt, llmOut,
                   renderVars, spoken, interrupted, caught, escaped, data,
                   prefer_voice, got_input>>

NextSearch == SearchWebOk \/ SearchWebError

SpecSearch == InitSearch /\ [][NextSearch]_vars

(***************************************************************************)
(* get_input (complete_voice_chatbot.py only) called on its own.           *)
(***************************************************************************)
InitInput ==
    /\ variant = "base"
    /\ argv = <<>>
    /\ GOOGLE_API_KEY = <<"key">>
    /\ SERPER_API_KEY = NoneV
    /\ VOICE_INPUT_AVAILABLE \in BOOLEAN
    /\ TTS_AVAILABLE = FALSE
    /\ voice_input \in {v \in BOOLEAN : v => VOICE_INPUT_AVAILABLE}
    /\ tts = FALSE
    /\ pc = "get_input"
    /\ Blank
    /\ data = NoData
    /\ web_result = NoneV
    /\ prefer_voice \in BOOLEAN
    /\ got_input = NoneV

\* lines 136-142: the voice attempt
GetInputVoice ==
    /\ pc = "get_input"
    /\ prefer_voice /\ voice_input
    /\ \E capture \in Captures :
         LET r == listen(voice_input, capture)
         IN  /\ heard' = r.ret
             /\ captureKind' = capture.kind
             /\ escaped' = r.exc
             /\ IF r.exc # "none"
                THEN pc' = "raised" /\ got_input' = got_input
                ELSE IF Truthy(r.ret)
                THEN pc' = "returned" /\ got_input' = r.ret
                ELSE pc' = "get_text_input" /\ got_input' = got_input
    /\ UNCHANGED <<env, flags, mode, command, user_input, response, turnIn,
                   genVars, renderVars, spoken, interrupted, caught, data,
                   web_result, prefer_voice>>

\* line 136 is false: straight to line 144
GetInputNoVoice ==
    /\ pc = "get_input"
    /\ ~(prefer_voice /\ voice_input)
    /\ pc' = "get_text_input"
    /\ UNCHANGED <<env, flags, mode, command, user_input, response, turnIn,
                   heard, captureKind, genVars, renderVars, spoken, interrupted,
                   caught, escaped, harness>>

\* lines 144 and 130-132
GetTextInput ==
    /\ pc = "get_text_input"
    /\ \E line \in TypedLines :
         /\ typed' = line
         /\ got_input' = get_text_input(line)
    /\ turn' = turn + 1
    /\ event' = "line"
    /\ onlyEOF' = FALSE
    /\ pc' = "returned"
    /\ UNCHANGED <<env, flags, mode, command, user_input, response, heard,
                   captureKind, genVars, renderVars, spoken, interrupted, caught,
                   escaped, data, web_result, prefer_voice>>

NextInput == GetInputVoice \/ GetInputNoVoice \/ GetTextInput

SpecInput == InitInput /\ [][NextInput]_vars

(***************************************************************************)
(* Properties.                                                             *)
(***************************************************************************)
\* the line typed in the current turn, trimmed (Empty when none was read)
TypedText == IF event = "line" /\ typed # NoneV THEN StrStrip(typed) ELSE Empty
TypedExit == StrLower(TypedText) \in ExitKeywords
TypedVoice == StrLower(TypedText) = <<"v", "o", "i", "c", "e">>
SessionOver == pc \in {"Ended", "Exit"}

\* C1: a typed line whose trimmed, lower-cased form is quit, exit, stop,
\* goodbye or bye ends the session in that same turn: the farewell is spoken,
\* the loop is left, and get_response is not called for that line.
C1_ExitKeywordEndsSession ==
    /\ (mode = "interactive" /\ TypedExit) =>
          /\ SessionOver
          /\ spoken = <<"Goodbye! Have a great day!">>
          /\ genCalls = 0
          /\ renderCalls = 0
          /\ ~interrupted
    /\ (mode = "interactive"
        /\ event = "line"
        /\ typed \in { <<"Q", "U", "I", "T">>, <<"B", "y", "e">>,
                       <<" ", " ", "g", "o", "o", "d", "b", "y", "e", " ", " ">> })
       => SessionOver

\* an upper-case exit word typed in the second turn, after a turn that was answered
C1_Witness ==
    /\ pc = "Ended"
    /\ turn = 2
    /\ typed = <<"Q", "U", "I", "T">>
    /\ response # NoneV
    /\ genCalls = 0
    /\ spoken = <<"Goodbye! Have a great day!">>

\* C2: the interactive loop is left only through an exit keyword or an
\* interrupt; an exception raised during a turn is caught by the loop, which
\* is then back at AwaitingInput.
C2_OnlyExitOrInterruptEnds ==
    mode = "interactive" =>
       /\ SessionOver => (interrupted \/ TypedExit)
       /\ caught => (pc = "AwaitingInput" /\ ~interrupted /\ escaped = "none")
       /\ pc # "main_except"

\* the renderer raised in a turn and the loop is waiting for the next line
C2_Witness ==
    /\ mode = "interactive"
    /\ caught
    /\ genCalls = 1
    /\ renderCalls = 1
    /\ pc = "AwaitingInput"

\* C3: on the typed keyword 'voice': with voice input on, the text captured
\* replaces 'voice' as the question of get_response; when the capture yields
\* no text, or voice input is off, the turn ends at AwaitingInput with neither
\* get_response nor the renderer called.
C3_VoiceCommand ==
    (mode = "interactive" /\ TypedVoice) =>
       /\ ~voice_input =>
             /\ pc = "AwaitingInput"
             /\ captureKind = "none"
             /\ genCalls = 0
             /\ renderCalls = 0
       /\ (voice_input /\ captureKind = "none") => pc = "Listening"
       /\ (voice_input /\ captureKind # "none") =>
             /\ pc # "Listening"
             /\ IF Truthy(heard)
                THEN /\ user_input = heard
                     /\ genCalls > 0 => genArg = heard
                     /\ ~interrupted => (genCalls = 1 \/ pc = "Processing")
                ELSE /\ genCalls = 0
                     /\ renderCalls = 0
                     /\ IF captureKind = "KeyboardInterrupt"
                        THEN SessionOver
                        ELSE pc = "AwaitingInput"

\* 'voice' typed, "bye" captured and passed to get_response
C3_Witness ==
    /\ mode = "interactive"
    /\ typed = <<" ", "V", "o", "i", "c", "e", " ">>
    /\ heard = <<"b", "y", "e">>
    /\ genCalls = 1
    /\ genArg = <<"b", "y", "e">>
    /\ pc = "Rendering"

\* 'voice' typed, the capture timed out, the turn is over without a response
C3_WitnessFailed ==
    /\ mode = "interactive"
    /\ TypedVoice
    /\ captureKind = "WaitTimeoutError"
    /\ pc = "AwaitingInput"
    /\ genCalls = 0

\* C4: an interrupt while the loop waits for input ends the session like an
\* exit keyword: the farewell is spoken, the loop is left, and no exception
\* leaves run_interactive.
C4_InterruptEndsCleanly ==
    event = "interrupt" =>
       /\ mode = "interactive"
       /\ SessionOver
       /\ interrupted
       /\ spoken = <<"Goodbye!">>
       /\ escaped = "none"
       /\ genCalls = 0
       /\ renderCalls = 0

\* Ctrl-C at the second prompt, with speech output on
C4_Witness ==
    /\ event = "interrupt"
    /\ pc = "Ended"
    /\ turn = 1
    /\ tts
    /\ response # NoneV

\* get_response has been called in the current turn and has returned
Answered == genCalls >= 1 /\ llmOut.kind \in {"ok", "error"}
IsApology(text) == text # NoneV /\ Len(text) >= 1 /\ text[1] = "Sorry, I had an error: "

\* C5 (as stated): every failure of the search or of the model call comes back
\* from get_response as an apology string.
C5_EveryFailureIsApology ==
    (Answered /\ (reqKind = "error" \/ llmOut.kind = "error")) => IsApology(response)

\* C5 (amended): get_response never raises for a failure of the search or of
\* the model call.  A failed model call comes back as the apology
\* "Sorry, I had an error: " followed by the error's description and the
\* turn goes on to rendering; a failed search is absorbed by search_web, the
\* prompt is then built without web information and the model's reply is
\* returned.
C5_FailuresAreAbsorbed ==
    /\ Answered =>
          /\ llmOut.kind = "error" =>
                response = <<"Sorry, I had an error: ">> \o llmOut.err
          /\ llmOut.kind = "ok" => response = llmOut.content
          /\ reqKind = "error" =>
                prompt = <<"Question: ">> \o genArg \o PromptInstruction
          /\ pc \in {"Rendering", "SingleRendering"} \/ renderCalls = 1
    /\ (caught /\ genCalls >= 1) => renderCalls = 1

\* the model call failed in an interactive turn and the apology is to be rendered
C5_Witness ==
    /\ mode = "interactive"
    /\ pc = "Rendering"
    /\ llmOut.kind = "error"
    /\ response = <<"Sorry, I had an error: ", "quota exceeded">>

\* the search failed, the model answered
C5_WitnessSearch ==
    /\ pc = "Rendering"
    /\ reqKind = "error"
    /\ llmOut.kind = "ok"
    /\ response = <<"It's sunny today.">>

\* what the current turn's typed line and capture make the utterance
HasUtterance ==
    /\ event = "line"
    /\ Truthy(TypedText)
    /\ ~TypedExit
    /\ TypedVoice => Truthy(heard)
Utterance == IF TypedVoice THEN heard ELSE TypedText
\* what get_response returned on the outcome recorded for this turn
Returned ==
    IF llmOut.kind = "ok" THEN llmOut.content
    ELSE <<"Sorry, I had an error: ">> \o llmOut.err

\* C6: a turn with an utterance calls get_response once with that utterance,
\* then the renderer once with the response returned, before the loop is back
\* at AwaitingInput; a turn without an utterance calls neither; what is
\* passed and rendered is this turn's, never an earlier turn's.
C6_OneResponsePerTurn ==
    mode = "interactive" =>
       /\ genCalls <= 1
       /\ renderCalls <= genCalls
       /\ ~HasUtterance => (genCalls = 0 /\ renderCalls = 0)
       /\ genCalls = 1 => (HasUtterance /\ genArg = Utterance)
       /\ renderCalls = 1 => (llmOut.kind \in {"ok", "error"} /\ rendered = Returned)
       /\ (HasUtterance /\ pc = "AwaitingInput") => (genCalls = 1 /\ renderCalls = 1)
       /\ pc = "Rendering" => (genCalls = 1 /\ renderCalls = 0 /\ response = Returned)

\* a second turn whose line was answered once and rendered once
C6_Witness ==
    /\ mode = "interactive"
    /\ turn = 2
    /\ typed = <<"h", "i">>
    /\ pc = "AwaitingInput"
    /\ genCalls = 1
    /\ renderCalls = 1
    /\ genArg = <<"h", "i">>
    /\ rendered = <<"Here is a joke.">>

\* C7: in get_input(prefer_voice=True) with voice input on, a capture that
\* times out, is unintelligible or fails in the backend raises nothing; the
\* typed line is then read and its trimmed form returned.  With voice input
\* off or prefer_voice false no capture is attempted and the trimmed typed
\* line is returned.
C7_VoiceFailureFallsBackToText ==
    /\ captureKind \in CaptureFailures =>
          /\ escaped = "none"
          /\ heard = NoneV
          /\ pc \in {"get_text_input", "returned"}
    /\ ~(prefer_voice /\ voice_input) => captureKind = "none"
    /\ pc = "returned" =>
          IF prefer_voice /\ voice_input /\ Truthy(heard)
          THEN got_input = heard /\ typed = NoneV
          ELSE typed # NoneV /\ got_input = RStrip(LStrip(typed))
    /\ (pc = "returned"
        /\ typed = <<" ", " ", "g", "o", "o", "d", "b", "y", "e", " ", " ">>)
       => got_input = <<"g", "o", "o", "d", "b", "y", "e">>

\* the capture timed out and the padded typed line came back trimmed
C7_Witness ==
    /\ prefer_voice
    /\ voice_input
    /\ pc = "returned"
    /\ captureKind = "WaitTimeoutError"
    /\ typed = <<" ", " ", "g", "o", "o", "d", "b", "y", "e", " ", " ">>
    /\ got_input = <<"g", "o", "o", "d", "b", "y", "e">>

\* C8: a failed probe of voice input or of voice output only leaves that
\* flag false, each independently, and startup goes on; startup fails only
\* when GOOGLE_API_KEY is unset, and then the process ends with no run
\* method entered and no turn processed.
C8_OnlyMissingKeyIsFatal ==
    pc # "main" =>
       /\ voice_input => VOICE_INPUT_AVAILABLE
       /\ tts => TTS_AVAILABLE
       /\ IF GOOGLE_API_KEY \in {NoneV, Empty}
          THEN /\ pc \in {"main_except", "Exit"}
               /\ mode = "none"
               /\ turn = 0
               /\ genCalls = 0
               /\ renderCalls = 0
               /\ spoken = NoneV
          ELSE /\ pc \in {"main_except", "Exit"} => mode # "none"
               /\ pc = "constructed" => mode = "none"

\* the microphone probe failed, speech output is on, the session is running
C8_Witness ==
    /\ VOICE_INPUT_AVAILABLE
    /\ ~voice_input
    /\ tts
    /\ pc = "AwaitingInput"
    /\ mode = "interactive"

\* the key is unset and the process has ended
C8_WitnessFatal ==
    /\ GOOGLE_API_KEY = NoneV
    /\ pc = "Exit"
    /\ mode = "none"

\* C9: with arguments, main joins them with single spaces into one command,
\* passes it once through get_response and the renderer, and the process
\* ends; the interactive loop is not entered and no input is read.
C9_SingleCommand ==
    /\ Len(argv) > 0 =>
          /\ mode # "interactive"
          /\ turn = 0
          /\ event = "none"
          /\ spoken = NoneV
          /\ (pc = "Exit" /\ Truthy(GOOGLE_API_KEY)) => mode = "single"
    /\ mode = "single" =>
          /\ Len(argv) > 0
          /\ genCalls <= 1
          /\ renderCalls <= genCalls
          /\ genCalls = 1 => genArg = command
          /\ renderCalls = 1 => (rendered = response /\ response = Returned)
          /\ pc \in {"main_except", "Exit"} => (genCalls = 1 /\ renderCalls = 1)
          /\ argv = << <<"t", "e", "l", "l">>, <<"m", "e">>, <<"a">>,
                       <<"j", "o", "k", "e">> >>
             => command = <<"t", "e", "l", "l", " ", "m", "e", " ", "a", " ",
                            "j", "o", "k", "e">>
          /\ argv = << <<"n", "e", "w", "s">> >> => command = <<"n", "e", "w", "s">>

\* "tell me a joke" was answered once and the process has ended
C9_Witness ==
    /\ mode = "single"
    /\ pc = "Exit"
    /\ genCalls = 1
    /\ renderCalls = 1
    /\ genArg = <<"t", "e", "l", "l", " ", "m", "e", " ", "a", " ", "j", "o", "k", "e">>
    /\ rendered = <<"Here is a joke.">>

\* the fragments the claim names: the description when present, then the
\* non-empty snippets among the first two organic results
C10_Kept(snippet) == snippet # Missing /\ snippet # Empty
C10_Fragments(d) ==
    (IF d.hasKG /\ d.kgDesc # Missing THEN <<d.kgDesc>> ELSE <<>>)
    \o (IF d.hasOrganic
        THEN SelectSeq([i \in 1..Min(2, Len(d.organic)) |-> d.organic[i]], C10_Kept)
        ELSE <<>>)
C10_Joined(f) ==
    IF Len(f) = 0 THEN NoneV
    ELSE IF Len(f) = 1 THEN f[1]
    ELSE IF Len(f) = 2 THEN f[1] \o <<" ">> \o f[2]
    ELSE f[1] \o <<" ">> \o f[2] \o <<" ">> \o f[3]

\* C10: given a search response, search_web returns the single-space join of
\* at most three fragments, the knowledge-panel description if present and
\* then the non-empty snippets of the first two organic results, or None when
\* there is no fragment; for snippets A, B, C it returns "A B".
C10_SearchFragments ==
    (pc = "search_web_done" /\ reqKind = "ok") =>
       /\ Len(C10_Fragments(data)) <= 3
       /\ web_result = C10_Joined(C10_Fragments(data))
       /\ (~data.hasKG /\ data.hasOrganic
           /\ data.organic = << <<"A">>, <<"B">>, <<"C">> >>)
          => web_result = <<"A", " ", "B">>

\* organic snippets A, B, C under a knowledge panel: "K A B"
C10_Witness ==
    /\ pc = "search_web_done"
    /\ reqKind = "ok"
    /\ data.hasKG
    /\ data.kgDesc = <<"K">>
    /\ data.hasOrganic
    /\ data.organic = << <<"A">>, <<"B">>, <<"C">> >>
    /\ web_result = <<"K", " ", "A", " ", "B">>

\* C11: in complete_voice_chatbot.py, Ctrl+C pressed while listen() waits for
\* speech is absorbed by the capture attempt, as the listening prompt
\* announces ("press Ctrl+C for text input"): listen() yields no result, the
\* user is back at text input, and the session does not end.
C11_InterruptWhileListeningSwitchesToText ==
    (mode = "interactive" /\ variant = "base" /\ captureKind = "KeyboardInterrupt") =>
       /\ heard = NoneV
       /\ ~interrupted
       /\ ~SessionOver
       /\ pc = "AwaitingInput"

\* C12: text captured after the 'voice' command is not examined as a
\* command: it is passed to get_response as the question, also when it is an
\* exit keyword or 'voice'; the session is over only after a typed exit
\* keyword or an interrupt, never because of what was spoken.
C12_SpokenTextIsNeverACommand ==
    mode = "interactive" =>
       /\ Truthy(heard) =>
             /\ user_input = heard
             /\ pc # "Listening"
             /\ pc # "Processing" => (genCalls = 1 /\ genArg = heard)
             /\ SessionOver => interrupted
       /\ (SessionOver /\ ~interrupted) =>
             /\ event = "line"
             /\ StrLower(RStrip(LStrip(typed))) \in ExitKeywords
             /\ captureKind = "none"
             /\ heard = NoneV

\* "bye" was spoken, answered and rendered, and the loop waits for the next line
C12_Witness ==
    /\ mode = "interactive"
    /\ heard = <<"b", "y", "e">>
    /\ genArg = <<"b", "y", "e">>
    /\ renderCalls = 1
    /\ ~interrupted
    /\ pc = "AwaitingInput"

\* 'voice' was spoken and is on its way to get_response as the question
C12_WitnessVoice ==
    /\ mode = "interactive"
    /\ variant = "conda"
    /\ heard = <<"v", "o", "i", "c", "e">>
    /\ user_input = <<"v", "o", "i", "c", "e">>
    /\ pc = "Processing"

\* C13: a read of the typed line that fails with a non-interrupt error (end
\* of input on a closed stream) is caught by the loop like any error of a
\* turn: it is reported and the loop is back at AwaitingInput.  While every
\* read has failed this way the loop can only prompt again: the session is
\* not over and get_response has never been called.
C13_FailedReadRePrompts ==
    mode = "interactive" =>
       /\ event = "eof" =>
             /\ caught
             /\ pc = "AwaitingInput"
             /\ genCalls = 0
             /\ renderCalls = 0
             /\ escaped = "none"
       /\ onlyEOF =>
             /\ pc = "AwaitingInput"
             /\ ~interrupted
             /\ genCalls = 0
             /\ user_input = NoneV
             /\ response = NoneV
             /\ turn < MaxTurns => ENABLED ReadEOF

\* two reads in a row ended with EOFError and the loop prompts again
C13_Witness ==
    /\ mode = "interactive"
    /\ onlyEOF
    /\ turn = 2
    /\ event = "eof"
    /\ caught
    /\ pc = "AwaitingInput"

====
